---- MODULE Spec2Model ----
(***************************************************************************)
(* The Kit directive compiler of jmap-blog: tokenizer.js (tokenizeString), *)
(* compiler.js (KitCompiler) and index.js (compile).                       *)
(*                                                                         *)
(* Text is a sequence of one-character strings, indexed as JavaScript      *)
(* indexes it (from 0) by the helpers below.  A path is text too.          *)
(***************************************************************************)
EXTENDS Integers, Sequences, FiniteSets, TLC

\* ------------------------------------------------------------------------
\* JavaScript String methods, as the compiler uses them
\* ------------------------------------------------------------------------

LF == "\n"
CR == "\r"
TAB == "\t"
SP == " "

\* what JavaScript's \s and trim() treat as white space, among the characters used
WhiteSpace == {SP, TAB, LF, CR}

Letters ==
  {"a","b","c","d","e","f","g","h","i","j","k","l","m",
   "n","o","p","q","r","s","t","u","v","w","x","y","z",
   "A","B","C","D","E","F","G","H","I","J","K","L","M",
   "N","O","P","Q","R","S","T","U","V","W","X","Y","Z"}

\* /[a-zA-Z]/.test(c), c one character or the empty text charAt gives past the end
IsLetter(c) == c \in Letters

SetMin(S) == CHOOSE x \in S : \A y \in S : x <= y
SetMax(S) == CHOOSE x \in S : \A y \in S : x >= y

\* s.charAt(i): the empty string past the end
CharAt(s, i) == IF i >= 0 /\ i < Len(s) THEN s[i + 1] ELSE ""

\* s.substring(a, b): arguments clamped to 0..length and swapped when a > b
Substring(s, a, b) ==
  LET ca == IF a < 0 THEN 0 ELSE IF a > Len(s) THEN Len(s) ELSE a
      cb == IF b < 0 THEN 0 ELSE IF b > Len(s) THEN Len(s) ELSE b
      lo == IF ca <= cb THEN ca ELSE cb
      hi == IF ca <= cb THEN cb ELSE ca
  IN  SubSeq(s, lo + 1, hi)

\* s.substring(a)
SubstringFrom(s, a) == Substring(s, a, Len(s))

\* the positions (from 0) at which p occurs in s
Occurrences(s, p) ==
  {i \in 0..(Len(s) - Len(p)) : \A k \in 1..Len(p) : s[i + k] = p[k]}

\* s.indexOf(p), -1 when absent
IndexOf(s, p) ==
  LET occ == Occurrences(s, p) IN IF occ = {} THEN -1 ELSE SetMin(occ)

\* s.lastIndexOf(p), -1 when absent
LastIndexOf(s, p) ==
  LET occ == Occurrences(s, p) IN IF occ = {} THEN -1 ELSE SetMax(occ)

\* s.endsWith(p)
EndsWith(s, p) ==
  Len(s) >= Len(p) /\ SubSeq(s, Len(s) - Len(p) + 1, Len(s)) = p

\* s.startsWith(p)
StartsWith(s, p) == Len(s) >= Len(p) /\ SubSeq(s, 1, Len(p)) = p

\* s.trim()
Trim(s) ==
  LET keep == {i \in 1..Len(s) : s[i] \notin WhiteSpace}
  IN  IF keep = {} THEN <<>> ELSE SubSeq(s, SetMin(keep), SetMax(keep))

\* one character of toLowerCase()
LowerChar(c) ==
  CASE c = "A" -> "a" [] c = "B" -> "b" [] c = "C" -> "c" [] c = "D" -> "d"
    [] c = "E" -> "e" [] c = "F" -> "f" [] c = "G" -> "g" [] c = "H" -> "h"
    [] c = "I" -> "i" [] c = "J" -> "j" [] c = "K" -> "k" [] c = "L" -> "l"
    [] c = "M" -> "m" [] c = "N" -> "n" [] c = "O" -> "o" [] c = "P" -> "p"
    [] c = "Q" -> "q" [] c = "R" -> "r" [] c = "S" -> "s" [] c = "T" -> "t"
    [] c = "U" -> "u" [] c = "V" -> "v" [] c = "W" -> "w" [] c = "X" -> "x"
    [] c = "Y" -> "y" [] c = "Z" -> "z" [] OTHER -> c

\* s.toLowerCase()
ToLowerCase(s) == [i \in 1..Len(s) |-> LowerChar(s[i])]

\* s.split(","): the pieces between the commas, empty pieces kept
RECURSIVE SplitComma(_)
SplitComma(s) ==
  LET i == IndexOf(s, <<",">>)
  IN  IF i = -1 THEN <<s>>
      ELSE <<Substring(s, 0, i)>> \o SplitComma(SubstringFrom(s, i + 1))

\* (s.match(/\n/g) || []).length
CountLF(s) == Cardinality({i \in 1..Len(s) : s[i] = LF})

\* the concatenation of a sequence of texts
RECURSIVE Concat(_)
Concat(ss) == IF ss = <<>> THEN <<>> ELSE Head(ss) \o Concat(Tail(ss))

\* ------------------------------------------------------------------------
\* tokenizer.js
\* ------------------------------------------------------------------------

\* the test of one loop iteration splitting between "-" and ">" too
shouldSplitBeforeGreater(s, i) ==
  LET currentChar == CharAt(s, i)
      nextChar == CharAt(s, i + 1)
  IN  \/ currentChar = SP \/ currentChar = TAB \/ currentChar = LF
      \/ (currentChar = CR /\ nextChar # LF)
      \/ (currentChar = ">" /\ nextChar = "<")
      \/ (currentChar = "-" /\ nextChar = ">")

\* the test of one loop iteration splitting after every carriage return
shouldSplitAfterEveryCR(s, i) ==
  LET currentChar == CharAt(s, i)
      nextChar == CharAt(s, i + 1)
  IN  \/ currentChar = SP \/ currentChar = TAB \/ currentChar = LF
      \/ currentChar = CR
      \/ (currentChar = ">" /\ nextChar = "<")

\* the test of one loop iteration: split after character i (from 0) of s
shouldSplit(s, i) ==
  LET currentChar == CharAt(s, i)
      nextChar == CharAt(s, i + 1)
  IN  \/ currentChar = SP \/ currentChar = TAB \/ currentChar = LF
      \/ (currentChar = CR /\ nextChar # LF)
      \/ (currentChar = ">" /\ nextChar = "<")

\* the for loop of tokenizeString without the push at the end of the string
RECURSIVE tokenizeLoopNoLastPush(_, _, _, _)
tokenizeLoopNoLastPush(s, i, result, buffer) ==
  IF i >= Len(s) THEN result
  ELSE LET buf == Append(buffer, s[i + 1])
       IN  IF shouldSplit(s, i)
           THEN tokenizeLoopNoLastPush(s, i + 1, Append(result, buf), <<>>)
           ELSE tokenizeLoopNoLastPush(s, i + 1, result, buf)

\* the for loop of tokenizeString from index i on, with the tokens pushed so
\* far and the buffer
RECURSIVE tokenizeLoop(_, _, _, _)
tokenizeLoop(s, i, result, buffer) ==
  IF i >= Len(s) THEN result
  ELSE LET buf == Append(buffer, s[i + 1])
       IN  IF shouldSplit(s, i) \/ i = Len(s) - 1
           THEN tokenizeLoop(s, i + 1, Append(result, buf), <<>>)
           ELSE tokenizeLoop(s, i + 1, result, buf)

tokenizeString(inputString) ==
  IF inputString = <<>> THEN <<>> ELSE tokenizeLoop(inputString, 0, <<>>, <<>>)

\* ------------------------------------------------------------------------
\* compiler.js: the directive scanner
\* ------------------------------------------------------------------------

OpenDelim == <<"<", "!", "-", "-">>
CloseDelim == <<"-", "-", ">">>

\* the while loop of isSpecialComment: the answer of the look-ahead that
\* starts after token testComp (from 0)
RECURSIVE spacedLookahead(_, _)
spacedLookahead(comps, testComp) ==
  IF testComp + 1 >= Len(comps) THEN FALSE
  ELSE LET testString == comps[testComp + 2]
           firstChar == CharAt(testString, 0)
       IN  IF Len(testString) > 1
           THEN IF firstChar = TAB \/ firstChar = SP
                THEN spacedLookahead(comps, testComp + 1)
                ELSE IF firstChar = "$" \/ firstChar = "@"
                     THEN IsLetter(CharAt(testString, 1))
                     ELSE FALSE
           ELSE spacedLookahead(comps, testComp + 1)

isSpecialComment(compString, comps, currentComp) ==
  \/ /\ Len(compString) >= 6
     /\ CharAt(compString, 4) \in {"$", "@"}
     /\ IsLetter(CharAt(compString, 5))
  \/ spacedLookahead(comps, currentComp)

\* JavaScript's null (and undefined): a one-element sequence that is no text,
\* since its element is not one character
Null == <<"null">>

KeywordStop == {SP, "=", TAB, ":", "-"}

\* the for loop of parseSpecialComment that finds keywordEnd, from index i on
RECURSIVE keywordEndLoop(_, _, _)
keywordEndLoop(commentContent, i, keywordEnd) ==
  IF i >= Len(commentContent) THEN keywordEnd
  ELSE LET char == CharAt(commentContent, i)
       IN  IF char \in KeywordStop
           THEN IF char = "-" /\ i + 2 < Len(commentContent)
                THEN IF CharAt(commentContent, i + 1) = "-"
                        /\ CharAt(commentContent, i + 2) = ">"
                     THEN keywordEnd
                     ELSE keywordEndLoop(commentContent, i + 1, i + 1)
                ELSE i
           ELSE keywordEndLoop(commentContent, i + 1, i + 1)

\* rest.search(/[^\s=:]+/): the first character that is neither white space,
\* "=" nor ":"
SearchPredicateStart(rest) ==
  LET hit == {i \in 0..(Len(rest) - 1) : rest[i + 1] \notin (WhiteSpace \cup {"=", ":"})}
  IN  IF hit = {} THEN -1 ELSE SetMin(hit)

parseSpecialComment(commentString) ==
  LET commentContent ==
        Trim(Substring(commentString,
                       IndexOf(commentString, OpenDelim) + 4,
                       LastIndexOf(commentString, CloseDelim)))
      keyChars == {i \in 0..(Len(commentContent) - 1) :
                     commentContent[i + 1] \in {"$", "@"}}
  IN  IF keyChars = {} THEN [keyword |-> Null, predicate |-> Null]
      ELSE LET keyCharIndex == SetMin(keyChars)
               keywordEnd ==
                 keywordEndLoop(commentContent, keyCharIndex + 1, keyCharIndex)
               keyword == Substring(commentContent, keyCharIndex, keywordEnd)
               predicateStart ==
                 SearchPredicateStart(SubstringFrom(commentContent, keywordEnd))
               predicate ==
                 IF keywordEnd < Len(commentContent) /\ predicateStart # -1
                 THEN Trim(SubstringFrom(commentContent, keywordEnd + predicateStart))
                 ELSE Null
           IN  [keyword |-> keyword, predicate |-> predicate]

\* the while loop that looks for the end of the comment, from token
\* specialCommentComp (from 0) on: the directive's text, its suffix and the
\* last token it took
RECURSIVE findCommentEnd(_, _, _)
findCommentEnd(comps, specialCommentComp, specialCommentString) ==
  IF specialCommentComp >= Len(comps)
  THEN [string |-> specialCommentString, suffix |-> <<>>, comp |-> specialCommentComp]
  ELSE LET commentCompString == comps[specialCommentComp + 1]
           commentEndIndex == LastIndexOf(commentCompString, CloseDelim)
           possibleSuffix == SubstringFrom(commentCompString, commentEndIndex + 3)
       IN  IF commentEndIndex # -1
           THEN [string |-> specialCommentString,
                 suffix |-> IF commentEndIndex + 3 < Len(commentCompString)
                               /\ possibleSuffix \notin {<<LF>>, <<CR, LF>>, <<CR>>}
                            THEN possibleSuffix ELSE <<>>,
                 comp |-> specialCommentComp]
           ELSE findCommentEnd(comps, specialCommentComp + 1,
                  IF specialCommentComp + 1 < Len(comps)
                  THEN specialCommentString \o comps[specialCommentComp + 2]
                  ELSE specialCommentString)

\* ------------------------------------------------------------------------
\* compiler.js: paths and the file system
\* ------------------------------------------------------------------------

VARIABLES
  files,             \* the regular files: path -> content
  dirs,              \* the paths that exist and are not regular files
  frameworkFolders,  \* this.options.frameworkFolders
  pc,                \* "idle", "running" (inside compile) or "done"
  inputPath,         \* compile's first argument (findImportFile's, in SpecFind)
  outputPath,        \* compile's second argument
  stack,             \* the active calls of recursivelyCompileKitFile, outermost first
  variablesDict,     \* the object shared by the calls of one compile
  result,            \* what compile returned
  outFile,           \* the content of the destination, Null while it is not written
  stmt,              \* the statement the innermost call is at (StepKind)
  content,           \* the argument of tokenizeString / compileString
  comps,             \* what tokenizeString returned
  calls              \* the machines of two calls of compile on one instance (SpecTwo)

vars == <<files, dirs, frameworkFolders, pc, inputPath, outputPath, stack, variablesDict,
          result, outFile, stmt, content, comps, calls>>

Slash == <<"/">>

\* path.basename(p)
Basename(p) == SubstringFrom(p, LastIndexOf(p, Slash) + 1)

\* path.dirname(p)
Dirname(p) ==
  LET i == LastIndexOf(p, Slash)
  IN  IF i = -1 THEN <<".">> ELSE IF i = 0 THEN Slash ELSE Substring(p, 0, i)

\* path.extname(p)
Extname(p) ==
  LET b == Basename(p)
      i == LastIndexOf(b, <<".">>)
  IN  IF i <= 0 THEN <<>> ELSE SubstringFrom(b, i)

\* path.join(a, b) for a normalized directory a and a name b without "." or
\* ".." segments (an empty b adds nothing)
PathJoin(a, b) ==
  IF b = <<>> THEN a
  ELSE IF EndsWith(a, Slash) THEN a \o b ELSE a \o Slash \o b

resolveRelativePath(relativePath, basePath) ==
  IF StartsWith(relativePath, Slash) THEN relativePath
  ELSE PathJoin(Dirname(basePath), relativePath)

\* .replace(/^\s*['"]/, "").replace(/['"]\s*$/, "").trim()
Quotes == {"'", "\""}
pruneCommonImportSyntaxCharacters(importString) ==
  LET lead == {i \in 1..Len(importString) : importString[i] \notin WhiteSpace}
      s1 == IF lead # {} /\ importString[SetMin(lead)] \in Quotes
            THEN SubstringFrom(importString, SetMin(lead))
            ELSE importString
      trail == {i \in 1..Len(s1) : s1[i] \notin WhiteSpace}
      s2 == IF trail # {} /\ s1[SetMax(trail)] \in Quotes
            THEN Substring(s1, 0, SetMax(trail) - 1)
            ELSE s1
  IN  Trim(s2)

\* (await fs.stat(p)).isFile() without a throw
IsRegularFile(p) == p \in DOMAIN files

\* the filename with its leading underscore toggled
alternateFilename(filename) ==
  IF StartsWith(filename, <<"_">>) THEN SubstringFrom(filename, 1)
  ELSE <<"_">> \o filename

\* the loop over the framework folders trying the toggled filename first
RECURSIVE findInFoldersAlternateFirst(_, _, _)
findInFoldersAlternateFirst(filePath, folders, i) ==
  IF i > Len(folders) THEN [found |-> FALSE, path |-> filePath]
  ELSE LET frameworkPath == PathJoin(folders[i], Basename(filePath))
           alternateFrameworkPath ==
             PathJoin(folders[i], alternateFilename(Basename(filePath)))
       IN  IF IsRegularFile(alternateFrameworkPath)
           THEN [found |-> TRUE, path |-> alternateFrameworkPath]
           ELSE IF IsRegularFile(frameworkPath)
                THEN [found |-> TRUE, path |-> frameworkPath]
                ELSE findInFoldersAlternateFirst(filePath, folders, i + 1)

\* the for loop of findImportFile over the framework folders, from folder i (from 1)
RECURSIVE findInFolders(_, _, _)
findInFolders(filePath, folders, i) ==
  IF i > Len(folders) THEN [found |-> FALSE, path |-> filePath]
  ELSE LET frameworkPath == PathJoin(folders[i], Basename(filePath))
           alternateFrameworkPath ==
             PathJoin(folders[i], alternateFilename(Basename(filePath)))
       IN  IF IsRegularFile(frameworkPath)
           THEN [found |-> TRUE, path |-> frameworkPath]
           ELSE IF IsRegularFile(alternateFrameworkPath)
                THEN [found |-> TRUE, path |-> alternateFrameworkPath]
                ELSE findInFolders(filePath, folders, i + 1)

findImportFile(filePath) ==
  LET alternatePath ==
        PathJoin(Dirname(filePath), alternateFilename(Basename(filePath)))
  IN  IF IsRegularFile(filePath) THEN [found |-> TRUE, path |-> filePath]
      ELSE IF IsRegularFile(alternatePath)
           THEN [found |-> TRUE, path |-> alternatePath]
           ELSE findInFolders(filePath, frameworkFolders, 1)

\* ------------------------------------------------------------------------
\* compiler.js: recursivelyCompileKitFile and compile, as steps of a machine
\* ------------------------------------------------------------------------

\* A message is the template of the source line that builds it and the values
\* interpolated into it.
Message(tmpl, line, file, arg) ==
  [tmpl |-> tmpl, line |-> line, file |-> file, arg |-> arg]

MsgLoop == Message("infinite import loop detected", 0, <<>>, <<>>)
MsgCompiled == Message("Compiled successfully.", 0, <<>>, <<>>)
MsgNone == Message("", 0, <<>>, <<>>)

\* const result = { successful: false, resultMessage: "", compiledCode: "" }
\* with resultMessage set; outputPath is Null where the object has no such field
Failure(msg) ==
  [successful |-> FALSE, resultMessage |-> msg, compiledCode |-> <<>>,
   outputPath |-> Null]

Success(code) ==
  [successful |-> TRUE, resultMessage |-> MsgCompiled, compiledCode |-> code,
   outputPath |-> Null]

NoResult == Failure(MsgNone)

\* process.cwd() and the directory of @import-partial
Cwd == <<"/", "w">>
PostsDir == PathJoin(Cwd, <<"p", "o", "s", "t", "s">>)

KitExt == <<".", "k", "i", "t">>
KwImport == <<"@", "i", "m", "p", "o", "r", "t">>
KwInclude == <<"@", "i", "n", "c", "l", "u", "d", "e">>
KwImportPartial == KwImport \o <<"-", "p", "a", "r", "t", "i", "a", "l">>

\* the locals of one call of recursivelyCompileKitFile; at is where the call
\* stands: "enter" (line 60), "walk" (the for loop over comps), "import" (the
\* for loop over imports) or "ret" (it has returned its result)
NewFrame(filePath, forbiddenImportPaths) ==
  [filePath |-> filePath,
   forbiddenImportPaths |-> forbiddenImportPaths,
   at |-> "enter",
   comps |-> <<>>,
   currentComp |-> 0,
   compiledCode |-> <<>>,
   lineCount |-> 1,
   imports |-> <<>>,
   importIdx |-> 0,
   specialCommentString |-> <<>>,
   specialCommentSuffix |-> <<>>,
   specialCommentComp |-> 0,
   result |-> NoResult]

\* the machine: what the steps read and change
Cur ==
  [pc |-> pc, outputPath |-> outputPath, stack |-> stack,
   variablesDict |-> variablesDict, result |-> result, outFile |-> outFile]

Top(M) == M.stack[Len(M.stack)]
SetTop(M, f) == [M EXCEPT !.stack[Len(M.stack)] = f]
Returning(f, res) == [f EXCEPT !.at = "ret", !.result = res]

fileName(f) == Basename(f.filePath)

\* the forbidden paths handed on without the current file
newForbiddenPathsWithoutSelf(f) == f.forbiddenImportPaths

newForbiddenPaths(f) == Append(f.forbiddenImportPaths, f.filePath)

\* line 69: forbiddenImportPaths.some(p => p.toLowerCase() === filePath.toLowerCase())
isForbidden(f) ==
  \E i \in 1..Len(f.forbiddenImportPaths) :
    ToLowerCase(f.forbiddenImportPaths[i]) = ToLowerCase(f.filePath)

\* lines 60-90: the loop check, then the read and the tokenizing
EnterStep(M) ==
  LET f == Top(M)
  IN  IF isForbidden(f) THEN SetTop(M, Returning(f, Failure(MsgLoop)))
      ELSE IF ~IsRegularFile(f.filePath)
           THEN SetTop(M, Returning(f,
                  Failure(Message("Error processing file", 0, fileName(f), f.filePath))))
           ELSE SetTop(M, [f EXCEPT !.at = "walk",
                                    !.comps = tokenizeString(files[f.filePath])])

\* the token the for loop is at, and the part of it from its first "<!--"
compAt(f) == f.comps[f.currentComp + 1]
commentStartIndex(f) == IndexOf(compAt(f), OpenDelim)
compStringAt(f) == SubstringFrom(compAt(f), commentStartIndex(f))
prefixAt(f) == Substring(compAt(f), 0, commentStartIndex(f))

Walking(M) ==
  /\ M.pc = "running" /\ M.stack # <<>>
  /\ Top(M).at = "walk" /\ Top(M).currentComp < Len(Top(M).comps)

IsText(f) == commentStartIndex(f) = -1
IsSpecial(f) ==
  /\ commentStartIndex(f) # -1
  /\ isSpecialComment(compStringAt(f), f.comps, f.currentComp)

\* a text token put in front of the output
TextStepPrepending(M) ==
  LET f == Top(M)
  IN  SetTop(M, [f EXCEPT
        !.compiledCode = compAt(f) \o @,
        !.lineCount = IF EndsWith(compAt(f), <<LF>>) \/ EndsWith(compAt(f), <<CR>>)
                      THEN @ + 1 ELSE @,
        !.currentComp = @ + 1])

\* lines 100-109: a token without "<!--"
TextStep(M) ==
  LET f == Top(M)
  IN  SetTop(M, [f EXCEPT
        !.compiledCode = @ \o compAt(f),
        !.lineCount = IF EndsWith(compAt(f), <<LF>>) \/ EndsWith(compAt(f), <<CR>>)
                      THEN @ + 1 ELSE @,
        !.currentComp = @ + 1])

\* lines 111-128: a token with a comment that is no directive
CommentStep(M) ==
  LET f == Top(M)
  IN  SetTop(M, [f EXCEPT
        !.compiledCode = @ \o prefixAt(f) \o compStringAt(f),
        !.currentComp = @ + 1])

\* lines 130-166: the directive that starts at the current token
scanned(f) == findCommentEnd(f.comps, f.currentComp, compStringAt(f))
parsed(f) == parseSpecialComment(scanned(f).string)
unterminated(f) == IndexOf(scanned(f).string, CloseDelim) = -1
\* !keyword: null or the empty string
noKeyword(f) == parsed(f).keyword = Null \/ parsed(f).keyword = <<>>
keywordOf(f) == parsed(f).keyword
predicateOf(f) == parsed(f).predicate
keywordIs(f, kws) == ToLowerCase(keywordOf(f)) \in kws

\* lines 111-116 and 131-133: the frame once the directive is scanned
Scanned(f) ==
  [f EXCEPT !.compiledCode = @ \o prefixAt(f),
            !.specialCommentString = scanned(f).string,
            !.specialCommentSuffix = scanned(f).suffix,
            !.specialCommentComp = scanned(f).comp]

\* the cursor moved to the token after the one the directive starts in
FinishDirectiveOneToken(f) ==
  [f EXCEPT !.compiledCode = @ \o f.specialCommentSuffix,
            !.lineCount = @ + CountLF(f.specialCommentString),
            !.currentComp = @ + 1,
            !.at = "walk"]

\* lines 280-291: the suffix, the line count, the cursor
FinishDirective(f) ==
  [f EXCEPT !.compiledCode = @ \o f.specialCommentSuffix,
            !.lineCount = @ + CountLF(f.specialCommentString),
            !.currentComp = f.specialCommentComp + 1,
            !.at = "walk"]

LineMessage(tmpl, f, arg) == Message(tmpl, f.lineCount, fileName(f), arg)

\* lines 159-171
DirectiveErrorStep(M) ==
  LET f == Top(M)
      g == Scanned(f)
  IN  SetTop(M, Returning(g, Failure(
        IF unterminated(f)
        THEN LineMessage("could not parse it into a full string", g, <<>>)
        ELSE LineMessage("Unable to find an appropriate keyword", g,
                         g.specialCommentString))))

\* an assignment that starts from an empty dictionary
AssignStepForgetting(M) ==
  LET f == Top(M)
  IN  [SetTop(M, FinishDirective(Scanned(f))) EXCEPT
        !.variablesDict = [n \in {keywordOf(f)} |-> predicateOf(f)]]

\* lines 262-266
AssignStep(M) ==
  LET f == Top(M)
      k == keywordOf(f)
      d == M.variablesDict
  IN  [SetTop(M, FinishDirective(Scanned(f))) EXCEPT
        !.variablesDict = [n \in DOMAIN d \cup {k} |->
                             IF n = k THEN predicateOf(f) ELSE d[n]]]

\* variablesDict is a plain object: a name it does not hold is looked up in
\* Object.prototype, whose properties are functions (no text, truthy)
ToStringName == <<"t", "o", "S", "t", "r", "i", "n", "g">>
ValueOfName == <<"v", "a", "l", "u", "e", "O", "f">>
ObjectPrototypeNames == {ToStringName, ValueOfName}
Inherited == <<"function">>

\* variablesDict[name], Null for undefined
Lookup(d, name) ==
  IF name \in DOMAIN d THEN d[name]
  ELSE IF name \in ObjectPrototypeNames THEN Inherited
  ELSE Null

\* lines 267-277
UseStep(M) ==
  LET f == Top(M)
      g == Scanned(f)
      insert == Lookup(M.variablesDict, keywordOf(f))
  IN  IF insert # Null /\ insert # <<>>
      THEN SetTop(M, FinishDirective([g EXCEPT !.compiledCode = @ \o insert]))
      ELSE SetTop(M, Returning(g, Failure(
             LineMessage("The variable is undefined", g, keywordOf(f)))))

\* lines 174-199
ImportPartialStep(M) ==
  LET f == Top(M)
      g == Scanned(f)
      variableName == Trim(predicateOf(f))
      value == Lookup(M.variablesDict, variableName)
      importPath == PathJoin(PostsDir, value)
  IN  IF predicateOf(f) = Null
      THEN \* predicate.trim() throws; the catch of line 297 answers
           SetTop(M, Returning(g, Failure(
             Message("Error processing file", 0, fileName(g), <<>>))))
      ELSE IF value = Null \/ value = <<>>
      THEN SetTop(M, Returning(g, Failure(
             LineMessage("The variable is undefined", g, variableName))))
      ELSE IF value = Inherited
      THEN \* path.join throws on an argument that is no string; line 297 answers
           SetTop(M, Returning(g, Failure(
             Message("Error processing file", 0, fileName(g), <<>>))))
      ELSE IF ~IsRegularFile(importPath)
      THEN SetTop(M, Returning(g, Failure(
             LineMessage("Cannot read file", g, importPath))))
      ELSE SetTop(M, FinishDirective(
             [g EXCEPT !.compiledCode = @ \o files[importPath]]))

\* lines 204-211
ImportBeginStep(M) ==
  LET f == Top(M)
      g == Scanned(f)
  IN  IF predicateOf(f) = Null
      THEN SetTop(M, Returning(g, Failure(
             LineMessage("Missing a filepath after the import/include keyword", g,
                         g.specialCommentString))))
      ELSE SetTop(M, [g EXCEPT !.at = "import",
                               !.imports = SplitComma(predicateOf(f)),
                               !.importIdx = 0])

\* lines 214-225: the path an import string names
cleanedImportString(f) ==
  pruneCommonImportSyntaxCharacters(Trim(f.imports[f.importIdx + 1]))
fullImportFilePath(f) ==
  LET q == resolveRelativePath(cleanedImportString(f), f.filePath)
  IN  IF Extname(q) = <<>> THEN q \o KitExt ELSE q

\* one turn of the loop that expands whatever file it finds as a template
ImportNextStepAlwaysTemplate(M) ==
  LET f == Top(M)
      pathInfo == findImportFile(fullImportFilePath(f))
  IN  IF ~pathInfo.found
      THEN SetTop(M, Returning(f, Failure(
             LineMessage("attempting to import a file that does not exist", f,
                         cleanedImportString(f)))))
      ELSE [M EXCEPT !.stack = Append(@, NewFrame(pathInfo.path, newForbiddenPaths(f)))]

\* lines 213-261: one turn of the for loop over imports
ImportNextStep(M) ==
  LET f == Top(M)
      pathInfo == findImportFile(fullImportFilePath(f))
  IN  IF ~pathInfo.found
      THEN SetTop(M, Returning(f, Failure(
             LineMessage("attempting to import a file that does not exist", f,
                         cleanedImportString(f)))))
      ELSE IF ToLowerCase(Extname(pathInfo.path)) = KitExt
      THEN [M EXCEPT !.stack = Append(@, NewFrame(pathInfo.path, newForbiddenPaths(f)))]
      ELSE SetTop(M, [f EXCEPT !.compiledCode = @ \o files[pathInfo.path],
                               !.importIdx = @ + 1])

\* lines 293-296
FinishFileStep(M) ==
  LET f == Top(M) IN SetTop(M, Returning(f, Success(f.compiledCode)))

\* line 246: importResult.successful && importResult.compiledCode
importAccepted(importResult) ==
  importResult.successful /\ importResult.compiledCode # <<>>

\* line 29: result.successful && result.compiledCode
compileAccepted(res) == res.successful /\ res.compiledCode # <<>>

\* lines 240-250: the importing call takes the result of the imported file
\* the importer going on with its list whatever the recursive call returned
ReturnToImporterIgnoringFailure(M) ==
  LET importResult == Top(M).result
      popped == [M EXCEPT !.stack = SubSeq(@, 1, Len(@) - 1)]
      f == Top(popped)
  IN  SetTop(popped, [f EXCEPT !.compiledCode = @ \o importResult.compiledCode,
                               !.importIdx = @ + 1])

ReturnToImporterStep(M) ==
  LET importResult == Top(M).result
      popped == [M EXCEPT !.stack = SubSeq(@, 1, Len(@) - 1)]
      f == Top(popped)
  IN  IF importAccepted(importResult)
      THEN SetTop(popped, [f EXCEPT !.compiledCode = @ \o importResult.compiledCode,
                                    !.importIdx = @ + 1])
      ELSE SetTop(popped, Returning(f, importResult))

\* how a call of fs.writeFile can end: the text is written; the call throws
\* and leaves the destination alone (it could not be opened); the call throws
\* after the destination was opened for writing, which empties it
WriteOutcomes == {"written", "refused", "truncated"}

\* the destination after fs.writeFile(outputPath, text)
writeFile(old, text, outcome) ==
  CASE outcome = "written" -> text
    [] outcome = "truncated" -> <<>>
    [] OTHER -> old

\* what the catch of lines 39-44 returns
CompileError ==
  [successful |-> FALSE,
   resultMessage |-> Message("Error compiling file", 0, <<>>, <<>>),
   compiledCode |-> Null,
   outputPath |-> Null]

\* compile writing the text before it looks at the result
ReturnToCompileWriteFirst(M, outcome) ==
  LET res == Top(M).result
      done == [M EXCEPT !.stack = <<>>, !.pc = "done",
                        !.outFile = writeFile(@, res.compiledCode, outcome)]
  IN  IF outcome # "written" THEN [done EXCEPT !.result = CompileError]
      ELSE IF compileAccepted(res)
      THEN [done EXCEPT
             !.result = [successful |-> TRUE,
                         resultMessage |-> res.resultMessage,
                         compiledCode |-> Null,
                         outputPath |-> M.outputPath]]
      ELSE [done EXCEPT !.result = res]

\* lines 26-44: compile takes the result of the top-level call
ReturnToCompileStep(M, outcome) ==
  LET res == Top(M).result
      done == [M EXCEPT !.stack = <<>>, !.pc = "done"]
  IN  IF compileAccepted(res)
      THEN IF outcome = "written"
           THEN [done EXCEPT
                  !.outFile = writeFile(@, res.compiledCode, outcome),
                  !.result = [successful |-> TRUE,
                              resultMessage |-> res.resultMessage,
                              compiledCode |-> Null,
                              outputPath |-> M.outputPath]]
           ELSE [done EXCEPT
                  !.outFile = writeFile(@, res.compiledCode, outcome),
                  !.result = CompileError]
      ELSE [done EXCEPT !.result = res]

\* if (predicate), if (keyword): neither null nor the empty string
Truthy(v) == v # Null /\ v # <<>>

\* which statement the machine is at
StepKind(M) ==
  IF M.pc # "running" \/ M.stack = <<>> THEN "none"
  ELSE LET f == Top(M)
       IN  CASE f.at = "enter" -> "enter"
             [] f.at = "ret" -> IF Len(M.stack) > 1 THEN "return" ELSE "returnTop"
             [] f.at = "import" ->
                  IF f.importIdx < Len(f.imports) THEN "next" ELSE "end"
             [] OTHER ->
                  IF f.currentComp >= Len(f.comps) THEN "finish"
                  ELSE IF IsText(f) THEN "text"
                  ELSE IF ~IsSpecial(f) THEN "comment"
                  ELSE IF unterminated(f) \/ noKeyword(f) THEN "error"
                  ELSE IF keywordIs(f, {KwImportPartial}) THEN "partial"
                  ELSE IF keywordIs(f, {KwImport, KwInclude}) THEN "import"
                  ELSE IF Truthy(predicateOf(f)) THEN "assign"
                  ELSE "use"

\* the end of the for loop over imports (line 261), then lines 280-291
ImportEndStep(M) == SetTop(M, FinishDirective(Top(M)))

\* one step of the machine
StepBy(k, M, outcome) ==
      CASE k = "enter" -> EnterStep(M)
        [] k = "text" -> TextStep(M)
        [] k = "comment" -> CommentStep(M)
        [] k = "error" -> DirectiveErrorStep(M)
        [] k = "partial" -> ImportPartialStep(M)
        [] k = "import" -> ImportBeginStep(M)
        [] k = "assign" -> AssignStep(M)
        [] k = "use" -> UseStep(M)
        [] k = "next" -> ImportNextStep(M)
        [] k = "end" -> ImportEndStep(M)
        [] k = "finish" -> FinishFileStep(M)
        [] k = "return" -> ReturnToImporterStep(M)
        [] k = "returnTop" -> ReturnToCompileStep(M, outcome)
        [] OTHER -> M

Step(M, outcome) == StepBy(StepKind(M), M, outcome)

\* compile going on with the dictionary it finds
CompileCallKeepingDictionary(M, filePath, out) ==
  [M EXCEPT !.pc = "running",
            !.outputPath = out,
            !.stack = <<NewFrame(filePath, <<>>)>>,
            !.result = NoResult]

\* compile(filePath, outputPath): a fresh dictionary and an empty list of
\* forbidden paths (the default parameters of line 57)
CompileCall(M, filePath, out) ==
  [M EXCEPT !.pc = "running",
            !.outputPath = out,
            !.stack = <<NewFrame(filePath, <<>>)>>,
            !.variablesDict = <<>>,
            !.result = NoResult]

\* the machine of a call of compile that has not been made
NoCall ==
  [pc |-> "idle", outputPath |-> Null, stack |-> <<>>, variablesDict |-> <<>>,
   result |-> NoResult, outFile |-> Null, inputPath |-> Null]

\* the machine run to the end of the compile, fs.writeFile writing the text
RECURSIVE Run(_)
Run(M) == IF M.pc # "running" THEN M ELSE Run(Step(M, "written"))

\* the machine run until the top-level call of recursivelyCompileKitFile has
\* returned to compile
RECURSIVE RunToReturn(_)
RunToReturn(M) ==
  IF StepKind(M) \in {"returnTop", "none"} THEN M
  ELSE RunToReturn(Step(M, "written"))

\* ------------------------------------------------------------------------
\* The actions
\* ------------------------------------------------------------------------

Apply(M) ==
  /\ pc' = M.pc
  /\ outputPath' = M.outputPath
  /\ stack' = M.stack
  /\ variablesDict' = M.variablesDict
  /\ result' = M.result
  /\ outFile' = M.outFile
  /\ stmt' = StepKind(M)
  /\ UNCHANGED <<files, dirs, frameworkFolders, content, comps, calls>>

\* index.js, compile(inputPath, outputPath): compiler.compile(inputPath, outputPath)

PathA == Cwd \o <<"/", "a", ".", "k", "i", "t">>
PathA2 == Cwd \o <<"/", "a", "2", ".", "k", "i", "t">>
PathEntryT == Cwd \o <<"/", "t", ".", "h", "t", "m", "l">>
PathOut == Cwd \o <<"/", "o", ".", "h", "t", "m", "l">>

\* the files a caller compiles
EntryFiles == {PathA, PathA2, PathEntryT}

Compile(filePath) ==
  /\ pc = "idle"
  /\ inputPath' = filePath
  /\ Apply(CompileCall(Cur, filePath, PathOut))

EnterFile == stmt = "enter" /\ Apply(EnterStep(Cur)) /\ UNCHANGED inputPath
CopyText == stmt = "text" /\ Apply(TextStep(Cur)) /\ UNCHANGED inputPath
CopyComment == stmt = "comment" /\ Apply(CommentStep(Cur)) /\ UNCHANGED inputPath
DirectiveError == stmt = "error" /\ Apply(DirectiveErrorStep(Cur)) /\ UNCHANGED inputPath
ImportPartial == stmt = "partial" /\ Apply(ImportPartialStep(Cur)) /\ UNCHANGED inputPath
ImportBegin == stmt = "import" /\ Apply(ImportBeginStep(Cur)) /\ UNCHANGED inputPath
AssignVariable == stmt = "assign" /\ Apply(AssignStep(Cur)) /\ UNCHANGED inputPath
UseVariable == stmt = "use" /\ Apply(UseStep(Cur)) /\ UNCHANGED inputPath
ImportNext == stmt = "next" /\ Apply(ImportNextStep(Cur)) /\ UNCHANGED inputPath
ImportEnd == stmt = "end" /\ Apply(ImportEndStep(Cur)) /\ UNCHANGED inputPath
FinishFile == stmt = "finish" /\ Apply(FinishFileStep(Cur)) /\ UNCHANGED inputPath
ReturnToImporter == stmt = "return" /\ Apply(ReturnToImporterStep(Cur)) /\ UNCHANGED inputPath
ReturnToCompile(outcome) ==
  /\ stmt = "returnTop"
  /\ Apply(ReturnToCompileStep(Cur, outcome))
  /\ UNCHANGED inputPath

Next ==
  \/ \E filePath \in EntryFiles : Compile(filePath)
  \/ EnterFile
  \/ CopyText
  \/ CopyComment
  \/ DirectiveError
  \/ ImportPartial
  \/ ImportBegin
  \/ AssignVariable
  \/ UseVariable
  \/ ImportNext
  \/ ImportEnd
  \/ FinishFile
  \/ ReturnToImporter
  \/ \E outcome \in WriteOutcomes : ReturnToCompile(outcome)

\* ------------------------------------------------------------------------
\* The inputs: the file systems a compile starts from
\* ------------------------------------------------------------------------

\* the most pieces concatenated into the entry file
MaxPieces == 3

\* the sequences of at most n elements of S
RECURSIVE SeqsUpTo(_, _)
SeqsUpTo(S, n) ==
  IF n = 0 THEN {<<>>}
  ELSE LET shorter == SeqsUpTo(S, n - 1)
       IN  shorter \cup {Append(q, x) : q \in shorter, x \in S}

\* <!--K P--> and <!-- K P -->
Compact(K, P) == OpenDelim \o K \o <<SP>> \o P \o CloseDelim
Spaced(K, P) == OpenDelim \o <<SP>> \o K \o <<SP>> \o P \o <<SP>> \o CloseDelim
\* <!--K--> and <!-- K -->
CompactUse(K) == OpenDelim \o K \o CloseDelim
SpacedUse(K) == OpenDelim \o <<SP>> \o K \o <<SP>> \o CloseDelim

VarN == <<"$", "n">>
VarT == <<"$", "t">>
Ann == <<"A", "n", "n">>
Bob == <<"B", "o", "b">>
MyTitle == <<"M", "y", SP, "T", "i", "t", "l", "e">>
Hello == <<"H", "e", "l", "l", "o", SP>>
Hi == <<"H", "i", SP>>
NameA == <<"a">>
NameB == <<"b">>
NameC == <<"c">>
NameM == <<"m">>
NameT == <<"t", ".", "h", "t", "m", "l">>

PathB == Cwd \o <<"/", "b", ".", "k", "i", "t">>
PathUB == Cwd \o <<"/", "_", "b", ".", "k", "i", "t">>
PathC == Cwd \o <<"/", "c", ".", "k", "i", "t">>
PathT == Cwd \o <<"/", "t", ".", "h", "t", "m", "l">>
FolderF == <<"/", "f">>
FolderG == <<"/", "g">>
PathFB == FolderF \o <<"/", "b", ".", "k", "i", "t">>
PathPost == PathJoin(PostsDir, Ann)

\* the pieces of an entry file with directives
TreePieces ==
  {Compact(VarN, Ann), Spaced(VarN, Bob), CompactUse(VarN),
   Spaced(KwImport, NameB), Compact(KwImport, NameA), Compact(KwInclude, NameM),
   Hi}

\* the files beside the entry file: path -> content
One(path, text) == [q \in {path} |-> text]
Two(p1, c1, p2, c2) == [q \in {p1, p2} |-> IF q = p1 THEN c1 ELSE c2]
Sites ==
  { <<>>,
    One(PathB, Hello \o CompactUse(VarN) \o <<"!">>),
    One(PathUB, Compact(VarN, Bob)),
    One(PathB, Compact(VarN, Bob) \o <<"B">>),
    One(PathB, Spaced(KwImport, NameA)),
    Two(PathB, Compact(KwImport, NameC), PathC, <<"[">> \o Compact(KwImport, NameA)),
    Two(PathFB, <<"(">> \o Spaced(KwInclude, NameC) \o <<")">>,
        FolderF \o <<"/", "_", "c", ".", "k", "i", "t">>, SpacedUse(VarN)),
    One(PathB, <<>>) }

\* the pieces of an entry file without directives: ordinary comments, words
\* that start with "$" or "@", white space
Note == OpenDelim \o <<"n", "o", "t", "e">> \o CloseDelim
JustANote ==
  OpenDelim \o <<SP, "j", "u", "s", "t", SP, "a", SP, "n", "o", "t", "e", SP>>
    \o CloseDelim
TextPieces ==
  {Note, JustANote, <<SP>>, <<LF>>, <<"$", "x">>, <<"@", "y", SP>>, <<"o", "k">>}

\* the keywords, predicates and surroundings of a directive written in both forms
FormKeywords == {VarN, VarT, KwImport, KwInclude, KwImportPartial}
FormPredicates == {Ann, MyTitle, NameB, NameB \o <<",", SP>> \o NameT, VarN}
FormBefore == {<<>>, <<"x">>, Compact(VarN, Ann), Note \o <<"x">>}
FormAfter == {<<>>, <<"!">>, <<LF>>, <<SP>> \o CompactUse(VarN)}
FormSite ==
  [q \in {PathB, PathT, PathPost} |->
     IF q = PathB THEN <<"B">> ELSE IF q = PathT THEN <<"T", LF>> ELSE <<"P">>]

\* f and g together, f where both are defined
Merge(f, g) ==
  [q \in DOMAIN f \cup DOMAIN g |-> IF q \in DOMAIN f THEN f[q] ELSE g[q]]

\* an entry file that imports b and then c, in one list or in two directives,
\* where b.kit assigns $n (and emits nothing or "B") and c.kit uses $n
ListEntries ==
  {Spaced(KwImport, NameB \o <<",", SP>> \o NameC),
   Spaced(KwImport, NameB) \o Spaced(KwImport, NameC)}
ListFirsts == {Compact(VarN, Bob), Compact(VarN, Bob) \o <<"B">>}
ListSystems ==
  {Merge(Two(PathA, entry, PathB, first),
         One(PathC, Hello \o CompactUse(VarN) \o <<"!">>)) :
     entry \in ListEntries, first \in ListFirsts}

\* an entry file a.kit that imports A, beside a file A.kit
NameUpperA == <<"A">>
PathUpperA == Cwd \o <<"/", "A", ".", "k", "i", "t">>
CaseSystems ==
  {Two(PathA, Hi \o Compact(KwImport, NameUpperA), PathUpperA, Hello)}

\* entry files with two directives in one token, with a directive right after
\* the end of an ordinary comment, and with line ends before a directive
Dash == <<"-">>
\* $t and $n assigned, then $n assigned again, each followed by a suffix
Reassigned ==
  Compact(VarT, Bob) \o <<SP>> \o Compact(VarN, Ann) \o <<"x", SP>>
    \o Compact(VarN, Bob) \o <<"y", SP>>
TightEntries ==
  {Compact(VarN, Ann) \o CompactUse(VarN) \o Dash \o CompactUse(VarN),
   Compact(VarN, Ann) \o Dash \o Compact(VarT, Bob) \o <<LF>> \o CompactUse(VarN),
   Compact(VarN, Ann) \o <<CR, LF>> \o CompactUse(VarN) \o <<"!", LF>>,
   JustANote \o <<"x">> \o Compact(VarN, Ann) \o CompactUse(VarN),
   Hi \o CloseDelim \o <<"x">> \o OpenDelim \o VarN,
   Note \o <<LF>> \o CompactUse(VarN),
   JustANote \o <<LF>> \o Hi \o <<LF>> \o CompactUse(VarN),
   Hi \o <<LF>> \o Spaced(VarN, Ann) \o <<LF>> \o <<"x", CR>> \o CompactUse(VarT),
   OpenDelim \o VarN \o <<LF>> \o Ann \o <<LF>> \o CloseDelim \o <<LF>>
     \o CompactUse(VarT),
   Reassigned}
TightSystems == {One(PathA, entry) : entry \in TightEntries}

\* a file t.html that holds directives: imported by a.kit, and importing
\* a.kit or itself
RawSystems ==
  {Two(PathA, Compact(VarN, Ann) \o Spaced(KwImport, NameT) \o CompactUse(VarN),
       PathT, Compact(VarN, Bob) \o CompactUse(VarT) \o Compact(KwImport, NameA)),
   Two(PathA, Hi, PathT, Hi \o Spaced(KwImport, NameT)),
   Two(PathA, Hi \o Spaced(KwImport, NameT),
       PathT, Compact(VarN, Bob) \o Spaced(KwImport, NameT))}

\* entry files with @import-partial: of a name that is not assigned, of a name
\* that every object inherits, and of a post that holds directives
PartialSystems ==
  {One(PathA, Hi \o <<LF>> \o Compact(VarN, Ann) \o Compact(KwImportPartial, VarT)),
   One(PathA, Hi \o Compact(KwImportPartial, ToStringName)),
   Two(PathA, Compact(VarN, Ann) \o Hi \o Compact(KwImportPartial, VarN) \o <<"!">>,
       PathPost, Compact(VarN, Bob) \o CompactUse(VarT) \o Compact(KwImport, NameA))}

FileSystems ==
  {Merge(One(PathA, Concat(ps)), site) :
     ps \in SeqsUpTo(TreePieces, MaxPieces), site \in Sites}
  \cup ListSystems
  \cup CaseSystems
  \cup TightSystems
  \cup RawSystems
  \cup PartialSystems
  \cup {One(PathA, Concat(ps)) : ps \in SeqsUpTo(TextPieces, MaxPieces)}
  \cup {Merge(Two(PathA, before \o Spaced(K, P) \o after,
                  PathA2, before \o Compact(K, P) \o after), FormSite) :
          K \in FormKeywords, P \in FormPredicates,
          before \in FormBefore, after \in FormAfter}

Init ==
  /\ files \in FileSystems
  /\ dirs = {Cwd, FolderF, FolderG, PostsDir}
  /\ frameworkFolders = <<FolderG, FolderF>>
  /\ pc = "idle"
  /\ inputPath = Null
  /\ outputPath = Null
  /\ stack = <<>>
  /\ variablesDict = <<>>
  /\ result = NoResult
  /\ outFile = Null
  /\ stmt = "none"
  /\ content = Null
  /\ comps = Null
  /\ calls = <<>>

Spec == Init /\ [][Next]_vars

\* ------------------------------------------------------------------------
\* findImportFile on its own: a file system in which every place the search
\* can look is absent, a regular file or a directory, and every order of the
\* framework folders
\* ------------------------------------------------------------------------

PathUFB == PathJoin(FolderF, Basename(PathUB))
PathGB == PathJoin(FolderG, NameB)
PathUGB == PathJoin(FolderG, Basename(PathUB))
FindPlaces == {PathB, PathUB, PathFB, PathUFB, PathGB, PathUGB}
FindRequests == {PathB, PathUB}
FolderOrders ==
  {<<>>, <<FolderF>>, <<FolderG>>, <<FolderF, FolderG>>, <<FolderG, FolderF>>}

InitFind ==
  /\ \E kind \in [FindPlaces -> {"absent", "file", "dir"}] :
       /\ files = [q \in {r \in FindPlaces : kind[r] = "file"} |-> <<"B">>]
       /\ dirs = {Cwd, FolderF, FolderG} \cup
                 {r \in FindPlaces : kind[r] = "dir"}
  /\ frameworkFolders \in FolderOrders
  /\ pc = "idle"
  /\ inputPath = Null
  /\ outputPath = Null
  /\ stack = <<>>
  /\ variablesDict = <<>>
  /\ result = NoResult
  /\ outFile = Null
  /\ stmt = "none"
  /\ content = Null
  /\ comps = Null
  /\ calls = <<>>

\* a call of findImportFile(filePath)
FindImport(filePath) ==
  /\ pc = "idle"
  /\ pc' = "found"
  /\ inputPath' = filePath
  /\ result' = findImportFile(filePath)
  /\ UNCHANGED <<files, dirs, frameworkFolders, outputPath, stack,
                 variablesDict, outFile, stmt, content, comps, calls>>

NextFind == \E filePath \in FindRequests : FindImport(filePath)

SpecFind == InitFind /\ [][NextFind]_vars

\* ------------------------------------------------------------------------
\* Two calls of compile on one KitCompiler, their steps interleaved in every
\* way; calls holds the machine of each
\* ------------------------------------------------------------------------

PathOut2 == Cwd \o <<"/", "o", "2", ".", "h", "t", "m", "l">>

\* the entry files of the two calls
TwoTexts ==
  {Compact(VarN, Ann) \o Spaced(KwImport, NameB) \o CompactUse(VarN),
   CompactUse(VarN),
   Spaced(KwImport, NameB) \o Note \o Hi,
   Compact(KwImport, NameA),
   Compact(VarN, Ann) \o Compact(KwImportPartial, VarN),
   Hi \o OpenDelim \o VarN}
TwoSites ==
  {Two(PathB, Hello \o CompactUse(VarN) \o <<"!">>, PathPost, <<"P">>),
   Two(PathB, Compact(VarN, Bob) \o <<"B">>, PathPost, <<"P">>)}

InitTwo ==
  /\ \E x \in TwoTexts, y \in TwoTexts, site \in TwoSites :
       files = Merge(Two(PathA, x, PathA2, y), site)
  /\ dirs = {Cwd, FolderF, FolderG, PostsDir}
  /\ frameworkFolders = <<FolderG, FolderF>>
  /\ pc = "idle"
  /\ inputPath = Null
  /\ outputPath = Null
  /\ stack = <<>>
  /\ variablesDict = <<>>
  /\ result = NoResult
  /\ outFile = Null
  /\ stmt = "none"
  /\ content = Null
  /\ comps = Null
  /\ calls = <<NoCall, NoCall>>

\* the two calls and their destinations
Calls == {1, 2}
OutOf(who) == IF who = 1 THEN PathOut ELSE PathOut2

\* recursivelyCompileKitFile has returned to compile in the call at M
AtReturn(M) == M.pc = "running" /\ Len(M.stack) = 1 /\ Top(M).at = "ret"

\* compile(filePath, out) called on the instance, whatever the instance's
\* first call has done or is doing; each call has its own destination
CompileBy(who, filePath) ==
  /\ calls[who].pc = "idle"
  /\ calls' = [calls EXCEPT ![who] =
                 [CompileCall(calls[1], filePath, OutOf(who))
                    EXCEPT !.inputPath = filePath, !.outFile = Null]]
  /\ UNCHANGED <<files, dirs, frameworkFolders, pc, inputPath, outputPath, stack,
                 variablesDict, result, outFile, stmt, content, comps>>

\* the call who runs to its next await
StepCall(who) ==
  /\ calls[who].pc = "running"
  /\ ~AtReturn(calls[who])
  /\ calls' = [calls EXCEPT ![who] = Step(calls[who], "written")]
  /\ UNCHANGED <<files, dirs, frameworkFolders, pc, inputPath, outputPath, stack,
                 variablesDict, result, outFile, stmt, content, comps>>

\* recursivelyCompileKitFile returns to the call who of compile
ReturnCall(who, outcome) ==
  /\ AtReturn(calls[who])
  /\ calls' = [calls EXCEPT ![who] = ReturnToCompileStep(calls[who], outcome)]
  /\ UNCHANGED <<files, dirs, frameworkFolders, pc, inputPath, outputPath, stack,
                 variablesDict, result, outFile, stmt, content, comps>>

NextTwo ==
  \E who \in Calls :
    \/ \E filePath \in EntryFiles : CompileBy(who, filePath)
    \/ StepCall(who)
    \/ \E outcome \in WriteOutcomes : ReturnCall(who, outcome)

SpecTwo == InitTwo /\ [][NextTwo]_vars

\* ------------------------------------------------------------------------
\* tokenizeString and compileString on their own: every string of at most
\* MaxChars characters over the characters the tokenizer tells apart
\* ------------------------------------------------------------------------

MaxChars == 4
TokChars == {SP, TAB, LF, CR, ">", "<", "a"}

\* index.js, compileString(content, basePath): the tokens put together again
compileString(text) ==
  LET cs == tokenizeString(text)
  IN  Success(Concat(cs))

\* a comment delimiter between two short strings
MaxAround == 2
AroundChars == {SP, CR, ">", "<", "-", "a"}
Delimited ==
  {x \o d \o y : x \in SeqsUpTo(AroundChars, MaxAround),
                 d \in {OpenDelim, CloseDelim},
                 y \in SeqsUpTo(AroundChars, MaxAround)}

InitTok ==
  /\ content \in SeqsUpTo(TokChars, MaxChars) \cup Delimited
  /\ comps = Null
  /\ files = <<>>
  /\ dirs = {Cwd}
  /\ frameworkFolders = <<>>
  /\ pc = "idle"
  /\ inputPath = Null
  /\ outputPath = Null
  /\ stack = <<>>
  /\ variablesDict = <<>>
  /\ result = NoResult
  /\ outFile = Null
  /\ stmt = "none"
  /\ calls = <<>>

\* a call of tokenizeString(content)
Tokenize ==
  /\ pc = "idle"
  /\ pc' = "tokenized"
  /\ comps' = tokenizeString(content)
  /\ UNCHANGED <<files, dirs, frameworkFolders, inputPath, outputPath, stack,
                 variablesDict, result, outFile, stmt, content, calls>>

\* a call of compileString(content, basePath)
CompileString ==
  /\ pc = "idle"
  /\ pc' = "compiled"
  /\ result' = compileString(content)
  /\ UNCHANGED <<files, dirs, frameworkFolders, inputPath, outputPath, stack,
                 variablesDict, outFile, stmt, content, comps, calls>>

NextTok == Tokenize \/ CompileString

SpecTok == InitTok /\ [][NextTok]_vars

\* ------------------------------------------------------------------------
\* parseSpecialComment on its own: every comment body of at most MaxBody
\* characters, between "<!--" and "-->"
\* ------------------------------------------------------------------------

MaxBody == 4

BodyChars == {"$", "a", "-", SP, "=", ">"}

InitParse ==
  /\ content \in SeqsUpTo(BodyChars, MaxBody)
  /\ comps = Null
  /\ files = <<>>
  /\ dirs = {Cwd}
  /\ frameworkFolders = <<>>
  /\ pc = "idle"
  /\ inputPath = Null
  /\ outputPath = Null
  /\ stack = <<>>
  /\ variablesDict = <<>>
  /\ result = NoResult
  /\ outFile = Null
  /\ stmt = "none"
  /\ calls = <<>>

\* a call of parseSpecialComment on the comment with body content
Parse ==
  /\ pc = "idle"
  /\ pc' = "parsed"
  /\ result' = parseSpecialComment(OpenDelim \o content \o CloseDelim)
  /\ UNCHANGED <<files, dirs, frameworkFolders, inputPath, outputPath, stack,
                 variablesDict, outFile, stmt, content, comps, calls>>

NextParse == Parse

SpecParse == InitParse /\ [][NextParse]_vars

\* ------------------------------------------------------------------------
\* What a document says, read off its text (used by the claims only)
\* ------------------------------------------------------------------------

Contains(s, p) == Occurrences(s, p) # {}

\* no file holds an assignment to K: nowhere is K followed by a character
\* that ends a keyword and may start a predicate
NeverAssigned(K) ==
  \A q \in DOMAIN files :
    \A c \in {SP, TAB, "=", ":"} : ~Contains(files[q], K \o <<c>>)

\* the import directives the documents are written with: <<text, spec>>
ImportSpecs == {NameA, NameB, NameC, NameM}
ImportDirectives ==
  {<<Compact(kw, spec), spec>> : kw \in {KwImport, KwInclude}, spec \in ImportSpecs}
    \cup {<<Spaced(kw, spec), spec>> :
            kw \in {KwImport, KwInclude}, spec \in ImportSpecs}

\* where the import of spec written in the file at path q leads, Null when nowhere
ImportTarget(spec, q) ==
  LET info == findImportFile(resolveRelativePath(spec, q) \o KitExt)
  IN  IF info.found THEN info.path ELSE Null

\* the file at q holds an import directive that leads to the file at r
ImportsFile(q, r) ==
  \E d \in ImportDirectives :
    Contains(files[q], d[1]) /\ ImportTarget(d[2], q) = r

\* the files reached from the set of files S through at most n imports
RECURSIVE ReachedFrom(_, _)
ReachedFrom(S, n) ==
  IF n = 0 THEN S
  ELSE LET R == ReachedFrom(S, n - 1)
       IN  R \cup {r \in DOMAIN files : \E q \in R : ImportsFile(q, r)}

\* the file at q imports itself, directly or through a chain
OnImportCycle(q) ==
  /\ q \in DOMAIN files
  /\ q \in ReachedFrom({r \in DOMAIN files : ImportsFile(q, r)},
                       Cardinality(DOMAIN files))

\* the file at q holds an import of a spec that resolves to no file
ImportsMissing(q) ==
  \E d \in ImportDirectives :
    Contains(files[q], d[1]) /\ ImportTarget(d[2], q) = Null

\* the first character of s at or after index i (from 0) that is no white space
RECURSIVE SkipWhiteSpace(_, _)
SkipWhiteSpace(s, i) ==
  IF i < Len(s) /\ CharAt(s, i) \in WhiteSpace THEN SkipWhiteSpace(s, i + 1) ELSE i

\* the comment that opens at index i of s is a directive comment: after "<!--"
\* and optional white space comes "$" or "@" and then a letter
DirectiveCommentAt(s, i) ==
  LET j == SkipWhiteSpace(s, i + 4)
  IN  CharAt(s, j) \in {"$", "@"} /\ IsLetter(CharAt(s, j + 1))

HasDirectiveComment(s) ==
  \E i \in Occurrences(s, OpenDelim) : DirectiveCommentAt(s, i)

\* the text of the current file from the current token on
RestOfFile(f) ==
  Concat(SubSeq(f.comps, f.currentComp + 1, Len(f.comps)))

\* ------------------------------------------------------------------------
\* The claims
\* ------------------------------------------------------------------------

Done == pc = "done"
CompiledA == Done /\ inputPath = PathA

\* C1 (as claimed): a use directive emits the predicate of the most recent
\* assignment that precedes it in document order, also when that assignment
\* is in a file imported earlier.  Stated for the last directive of the entry
\* file: when the entry file ends with the use <!--$n--> and the compile
\* reports success with $n assigned, the destination text ends with the value
\* last assigned to $n.
C1_UseEmitsLatestAssignment ==
  (/\ CompiledA
   /\ EndsWith(files[PathA], CompactUse(VarN))
   /\ result.successful
   /\ VarN \in DOMAIN variablesDict)
  => (outFile # Null /\ EndsWith(outFile, variablesDict[VarN]))

\* C2 (as claimed): a use of a name that no directive assigns makes the
\* compile fail.  When the entry file holds the use <!--$n--> and no file
\* holds an assignment to $n, the compile does not report success.
C2_UndefinedUseFails ==
  (/\ CompiledA
   /\ Contains(files[PathA], CompactUse(VarN))
   /\ NeverAssigned(VarN))
  => ~result.successful

\* C3 (as claimed): compiling a file that imports itself, directly or through
\* a chain, ends in a failure: the compile of an entry file on an import cycle
\* does not report success.
C3_CycleFails ==
  (CompiledA /\ OnImportCycle(PathA)) => ~result.successful

\* C4 (as claimed): for a text without a directive comment the top-level call
\* of recursivelyCompileKitFile succeeds and its compiled text is the input.
C4_NoDirectiveIdentity ==
  (/\ stmt = "returnTop"
   /\ inputPath = PathA
   /\ ~HasDirectiveComment(files[PathA]))
  => (/\ stack[1].result.successful
      /\ stack[1].result.compiledCode = files[PathA])

\* C5 (as claimed): a comment is dispatched as a directive only if the first
\* text after its "<!--" that is no white space is "$" or "@" followed by a
\* letter; at any other comment the walk is at the statement that copies it.
C5_OnlyDirectiveCommentsDispatched ==
  (/\ pc = "running"
   /\ stmt \in {"comment", "error", "partial", "import", "assign", "use"}
   /\ ~DirectiveCommentAt(RestOfFile(Top(Cur)),
                          IndexOf(RestOfFile(Top(Cur)), OpenDelim)))
  => stmt = "comment"

\* the places the search for filePath looks in, in order: the literal path, the
\* same directory with the underscore toggled, then in each framework folder
\* the plain filename and the toggled one
RECURSIVE FolderCandidates(_, _, _)
FolderCandidates(name, folders, i) ==
  IF i > Len(folders) THEN <<>>
  ELSE <<PathJoin(folders[i], name),
         PathJoin(folders[i], alternateFilename(name))>>
         \o FolderCandidates(name, folders, i + 1)

Candidates(filePath) ==
  <<filePath, PathJoin(Dirname(filePath), alternateFilename(Basename(filePath)))>>
    \o FolderCandidates(Basename(filePath), frameworkFolders, 1)

\* C7: findImportFile(filePath) returns the first of its candidates, in their
\* order, that is an existing regular file, and reports not-found exactly when
\* no candidate is one.
C7_FirstRegularCandidate ==
  pc = "found" =>
    LET cs == Candidates(inputPath)
        hits == {i \in 1..Len(cs) : cs[i] \in DOMAIN files}
    IN  IF hits = {} THEN result = [found |-> FALSE, path |-> inputPath]
        ELSE result = [found |-> TRUE, path |-> cs[SetMin(hits)]]

\* an import of b.kit with neither b.kit nor _b.kit beside the importer, found
\* as b.kit in the first framework folder although the second folder has it
\* too and the first folder also holds _b.kit
C7_Witness ==
  /\ pc = "found"
  /\ inputPath = PathB
  /\ frameworkFolders = <<FolderF, FolderG>>
  /\ PathB \notin DOMAIN files
  /\ PathUB \in dirs
  /\ {PathFB, PathUFB, PathGB} \subseteq DOMAIN files
  /\ result = [found |-> TRUE, path |-> PathFB]

\* C8 (as claimed): an import of a spec that resolves to no file makes the
\* compile fail: when the entry file holds such an import, the compile does
\* not report success.
C8_MissingImportFails ==
  (CompiledA /\ ImportsMissing(PathA)) => ~result.successful

\* C10 (as claimed): when compile returns successful = true, the expanded text
\* has been written to outputPath and the result carries outputPath.
C10_SuccessMeansWritten ==
  (Done /\ result.successful)
  => (outFile # Null /\ result.outputPath = outputPath)

\* the top-level call of recursivelyCompileKitFile(filePath), run from here
\* with a fresh dictionary
Outcome(filePath) == RunToReturn(CompileCall(Cur, filePath, PathOut))

\* C6: a file that writes a directive in the spaced form <!-- K P --> and the
\* same file with the compact form <!--K P--> compile to the same result and
\* text and leave the same variable dictionary.  a.kit and a2.kit differ in
\* the form of one directive only; when the call for a.kit has returned, the
\* call for a2.kit returns the same.
C6_SpacedEqualsCompact ==
  (/\ stmt = "returnTop"
   /\ inputPath = PathA
   /\ PathA2 \in DOMAIN files)
  => LET twin == Outcome(PathA2)
     IN  /\ Top(twin).result.successful = stack[1].result.successful
         /\ Top(twin).result.compiledCode = stack[1].result.compiledCode
         /\ twin.variablesDict = variablesDict

\* C9: when a compile ends in a failure of its import tree (any failure that
\* recursivelyCompileKitFile returns, at any depth) the destination is not
\* written, and nothing reaches it while the compile runs: the destination is
\* touched only by the fs.writeFile of a compile that got a successful result.
C9_NoWriteOnFailure ==
  outFile # Null => (Done /\ (result.successful \/ result = CompileError))

\* C9's case: a compile that failed in an imported file after the entry file
\* had emitted text
C9_Witness ==
  /\ Done
  /\ ~result.successful
  /\ result.resultMessage.file = Basename(PathB)
  /\ StartsWith(files[inputPath], Hi)

BoundariesOf(cs) ==
  {Len(Concat(SubSeq(cs, 1, k))) - 1 : k \in 1..Len(cs)}

\* C20: a token ends after character i exactly when character i is a space, a
\* tab or a line feed, a carriage return not followed by a line feed, a ">"
\* followed by "<", or the last character; no token ends between CR and LF.
C20_BoundariesExactly ==
  pc = "tokenized" =>
    /\ BoundariesOf(comps) =
         {i \in 0..(Len(content) - 1) :
            \/ content[i + 1] \in {SP, TAB, LF}
            \/ (content[i + 1] = CR /\ (i + 2 > Len(content) \/ content[i + 2] # LF))
            \/ (content[i + 1] = ">" /\ i + 2 <= Len(content) /\ content[i + 2] = "<")
            \/ i = Len(content) - 1}
    /\ \A i \in 0..(Len(content) - 2) :
         (content[i + 1] = CR /\ content[i + 2] = LF) => i \notin BoundariesOf(comps)

\* C20's case: a CR LF pair kept in one token between two other tokens
C20_Witness ==
  /\ pc = "tokenized"
  /\ content = <<"a", SP, CR, LF>>
  /\ comps = << <<"a", SP>>, <<CR, LF>> >>

\* C11: when a.kit imports a template file B that assigns $n, a use of $n after
\* the import, back in a.kit, emits the value B assigned, after the text a.kit
\* emitted before the import and the text B emits, whatever B emits (also
\* nothing).
C11_ImportedAssignmentVisible ==
  \A before \in {<<>>, Hi} :
    LET B == ImportTarget(NameB, PathA)
    IN  (/\ CompiledA
         /\ result # CompileError
         /\ files[PathA] = before \o Spaced(KwImport, NameB) \o CompactUse(VarN)
         /\ B # Null
         /\ StartsWith(files[B], Compact(VarN, Bob))
         /\ SubstringFrom(files[B], Len(Compact(VarN, Bob))) \in {<<>>, <<"B">>})
        => /\ result.successful
           /\ outFile = before
                          \o SubstringFrom(files[B], Len(Compact(VarN, Bob)))
                          \o Bob

\* C12: the message of every failure that a compile returns from its import
\* tree names the file the failure arose in and a line number from 1 on.
C12_FailureNamesFileAndLine ==
  (Done /\ ~result.successful /\ result # CompileError)
    => /\ result.resultMessage.file # <<>>
       /\ result.resultMessage.line >= 1

\* the call compile(filePath, out) made alone on a new KitCompiler, run until
\* recursivelyCompileKitFile has returned to compile
Alone(filePath, out) == RunToReturn(CompileCall(NoCall, filePath, out))

\* C13: each of two calls of compile on one instance, however their steps
\* interleave, gets from recursivelyCompileKitFile the result, and is left
\* with the dictionary, that the call gets when it runs alone; a call that
\* has ended returned what it returns alone (or the failure of its write).
C13_CallsAreIsolated ==
  \A who \in DOMAIN calls :
    /\ AtReturn(calls[who]) =>
         LET alone == Alone(calls[who].inputPath, OutOf(who))
         IN  /\ Top(calls[who]).result = Top(alone).result
             /\ calls[who].variablesDict = alone.variablesDict
    /\ calls[who].pc = "done" =>
         calls[who].result \in
           {Run(Alone(calls[who].inputPath, OutOf(who))).result, CompileError}

\* C13's case: the first call has assigned $n and is inside a.kit, while the
\* second call, of a file that uses $n without assigning it or of a file
\* that imports a.kit, has returned from recursivelyCompileKitFile
C13_Witness ==
  /\ calls # <<>>
  /\ calls[1].pc = "running"
  /\ calls[1].inputPath = PathA
  /\ Len(calls[1].stack) = 1
  /\ VarN \in DOMAIN calls[1].variablesDict
  /\ AtReturn(calls[2])
  /\ calls[2].inputPath = PathA2
  /\ \/ /\ files[PathA2] = CompactUse(VarN)
        /\ ~Top(calls[2]).result.successful
     \/ /\ files[PathA2] = Compact(KwImport, NameA)
        /\ Top(calls[2]).result.successful

\* C15: when a.kit imports b and then c, in one comma-separated list or in two
\* directives, the output is the expansion of b.kit followed by the expansion
\* of c.kit, and the assignment b.kit makes is visible while c.kit is expanded.
C15_ImportsInOrder ==
  (/\ CompiledA
   /\ result # CompileError
   /\ files \in ListSystems)
  => /\ result.successful
     /\ outFile = SubstringFrom(files[PathB], Len(Compact(VarN, Bob)))
                    \o Hello \o Bob \o <<"!">>

\* C16: when the recursive call for an imported template file returns a
\* successful result, the importer appends exactly that result's text, of any
\* length, and goes on with the next entry of its import list.
C16_SuccessfulImportAppended ==
  [][(stmt = "return" /\ stack[Len(stack)].result.successful)
       => /\ Len(stack') = Len(stack) - 1
          /\ stack'[Len(stack')].at = "import"
          /\ stack'[Len(stack')].importIdx = stack[Len(stack) - 1].importIdx + 1
          /\ stack'[Len(stack')].compiledCode =
               stack[Len(stack) - 1].compiledCode
                 \o stack[Len(stack)].result.compiledCode]_vars

\* C17: a failure returned by a call of recursivelyCompileKitFile is handed
\* on at once and unchanged by every enclosing call and by compile: after it
\* no token is processed, no variable is assigned, no file is imported and
\* nothing is written.
C17_FirstFailureReturned ==
  [][/\ (stmt = "return" /\ ~stack[Len(stack)].result.successful)
          => /\ Len(stack') = Len(stack) - 1
             /\ stack'[Len(stack')] =
                  [stack[Len(stack) - 1] EXCEPT
                     !.at = "ret", !.result = stack[Len(stack)].result]
             /\ variablesDict' = variablesDict
             /\ outFile' = outFile
     /\ (stmt = "returnTop" /\ ~stack[1].result.successful)
          => /\ result' = stack[1].result
             /\ pc' = "done"
             /\ variablesDict' = variablesDict
             /\ outFile' = outFile]_vars

\* C17's case: the loop failure that arose three imports deep (a.kit imports
\* b.kit, b.kit imports c.kit, c.kit imports a.kit) is what compile returned
C17_Witness ==
  /\ CompiledA
  /\ PathB \in DOMAIN files
  /\ files[PathB] = Compact(KwImport, NameC)
  /\ StartsWith(files[PathA], Spaced(KwImport, NameB))
  /\ ~result.successful
  /\ result.resultMessage = MsgLoop

\* the paths of the files being expanded, from the entry file to call i
Chain(i) == [j \in 1..i |-> stack[j].filePath]

\* C18: in every call the forbidden paths are the chain of files from the
\* entry file down to the importer, and the guard of a call that has passed
\* the loop check (these paths and its own file) holds no path twice, letter
\* case ignored; a returned call has left the stack and with it the guard.
C18_GuardIsTheChain ==
  \A i \in 1..Len(stack) :
    /\ stack[i].forbiddenImportPaths = Chain(i - 1)
    /\ stack[i].at \in {"walk", "import"} =>
         /\ newForbiddenPaths(stack[i]) = Chain(i)
         /\ \A j, k \in 1..i :
              ToLowerCase(Chain(i)[j]) = ToLowerCase(Chain(i)[k]) => j = k

\* C18's case: three files deep, the innermost past its loop check
C18_Witness ==
  /\ Len(stack) = 3
  /\ stack[3].at = "walk"
  /\ newForbiddenPaths(stack[3]) = <<PathA, PathB, PathC>>

\* C19: two sibling imports of the same template file b in a.kit are both
\* expanded, each appending the text b expands to, and no loop is reported.
C19_SiblingImportsBothExpanded ==
  LET B == ImportTarget(NameB, PathA)
      assigned == IF B # Null /\ StartsWith(files[B], Compact(VarN, Bob))
                  THEN Len(Compact(VarN, Bob)) ELSE 0
  IN  (/\ CompiledA
       /\ result # CompileError
       /\ files[PathA] = Spaced(KwImport, NameB) \o Spaced(KwImport, NameB)
       /\ B # Null
       /\ SubstringFrom(files[B], assigned) \in {<<>>, <<"B">>})
      => /\ result.successful
         /\ outFile = SubstringFrom(files[B], assigned)
                        \o SubstringFrom(files[B], assigned)

\* C21: every occurrence of "<!--" and of "-->" in the input lies inside one
\* token: no token ends after a character of a delimiter other than its last.
C21_DelimitersNotSplit ==
  pc = "tokenized" =>
    \A d \in {OpenDelim, CloseDelim} :
      \A i \in Occurrences(content, d) :
        \A j \in i..(i + Len(d) - 2) : j \notin BoundariesOf(comps)

\* C21's case: "-->" right before "<!--", with the token boundary between them
C21_Witness ==
  /\ pc = "tokenized"
  /\ content = <<"a">> \o CloseDelim \o <<"<", SP>>
  /\ comps = << <<"a">> \o CloseDelim, <<"<", SP>> >>

\* the walk of the innermost call is at a token whose comment it takes for a
\* directive with a keyword and an end
AtDirective ==
  pc = "running" /\ stmt \in {"partial", "import", "assign", "use"}

\* the text of the current file from the "<!--" the walk is at
FromOpening(f) == SubstringFrom(RestOfFile(f), commentStartIndex(f))

\* the index in text s, which starts with "<!--", of the first "-->" after
\* that "<!--", -1 when there is none
ClosingOf(s) ==
  LET after == {i \in Occurrences(s, CloseDelim) : i >= Len(OpenDelim)}
  IN  IF after = {} THEN -1 ELSE SetMin(after)

\* the text that follows, within its token, the "-->" at index c of s
AfterClosing(s, c) ==
  SubstringFrom(tokenizeString(SubstringFrom(s, c + 2))[1], 1)

\* C22: the suffix kept for a directive is the text after the directive's
\* closing "-->" within the same token, or nothing when that text is exactly
\* one line terminator, and keyword and predicate are those of the text up
\* to that "-->".
C22_SuffixAndBody ==
  AtDirective =>
    LET f == Top(Cur)
        s == FromOpening(f)
        c == ClosingOf(s)
        S == AfterClosing(s, c)
        body == parseSpecialComment(Substring(s, 0, c + 3))
    IN  c # -1 =>
          /\ scanned(f).suffix =
               IF S \in {<<LF>>, <<CR, LF>>, <<CR>>} THEN <<>> ELSE S
          /\ keywordOf(f) = body.keyword
          /\ predicateOf(f) = body.predicate

\* C23: a comment taken for a directive is answered with the unterminated
\* comment error exactly when no "-->" follows its "<!--" in the file.
C23_UnterminatedIffNoClosing ==
  (pc = "running" /\ stmt \in {"error", "partial", "import", "assign", "use"}) =>
    LET f == Top(Cur)
    IN  unterminated(f) <=> ClosingOf(FromOpening(f)) = -1

\* the first index from i on of text s whose character is not in set skip
RECURSIVE SkipAll(_, _, _)
SkipAll(s, i, skip) ==
  IF i < Len(s) /\ s[i + 1] \in skip THEN SkipAll(s, i + 1, skip) ELSE i

\* the first "$" or "@" of the body is followed by a letter
NamesSomething(body) ==
  LET keys == {i \in 0..(Len(body) - 1) : body[i + 1] \in {"$", "@"}}
  IN  keys # {} /\ IsLetter(CharAt(body, SetMin(keys) + 1))

\* keyword and predicate of a comment body as the description gives them: the
\* keyword runs from the first "$" or "@" to the first space, tab, "=" or ":"
\* or to the end of the body, the predicate is the trimmed rest after the run
\* of "=", ":" and white space
DescribedBody(body) ==
  LET b == Trim(body)
      k == SetMin({i \in 0..(Len(b) - 1) : b[i + 1] \in {"$", "@"}})
      stops == {i \in (k + 1)..(Len(b) - 1) :
                  \/ b[i + 1] \in {SP, TAB, "=", ":"}
                  \/ StartsWith(SubstringFrom(b, i), CloseDelim)}
      e == IF stops = {} THEN Len(b) ELSE SetMin(stops)
      rest == Trim(SubstringFrom(b, SkipAll(b, e, WhiteSpace \cup {"=", ":"})))
  IN  [keyword |-> Substring(b, k, e),
       predicate |-> IF rest = <<>> THEN Null ELSE rest]

\* C24: the keyword returned by parseSpecialComment runs from the first "$"
\* or "@" of the body to the first space, tab, "=" or ":" or to the closing
\* delimiter, a "-" elsewhere staying in the keyword, and the predicate is the
\* trimmed rest after the run of "=", ":" and white space, if any.
C24_KeywordAndPredicate ==
  (pc = "parsed" /\ NamesSomething(content)) => result = DescribedBody(content)

\* C25: a step that processes an assignment gives the keyword the predicate,
\* which is trimmed, as value, whatever value it had, leaves every other
\* variable as it was, and appends to the output the directive's suffix only
\* (after the text that preceded "<!--" in the token).
C25_AssignmentSetsOnlyItsName ==
  [][(pc = "running" /\ stmt = "assign") =>
       LET f == Top(Cur)
           k == keywordOf(f)
           v == predicateOf(f)
       IN  /\ v # Null /\ v = Trim(v)
           /\ DOMAIN variablesDict' = DOMAIN variablesDict \cup {k}
           /\ variablesDict'[k] = v
           /\ \A n \in DOMAIN variablesDict \ {k} :
                variablesDict'[n] = variablesDict[n]
           /\ Len(stack') = Len(stack)
           /\ stack'[Len(stack)].compiledCode =
                f.compiledCode \o prefixAt(f) \o scanned(f).suffix]_vars

\* C25's case: $n, which held Ann, has been assigned Bob while $t kept its
\* value, and the output holds the suffixes only
C25_Witness ==
  /\ pc = "running"
  /\ files[PathA] = Reassigned
  /\ Len(stack) = 1
  /\ stack[1].currentComp = Len(stack[1].comps)
  /\ variablesDict = Two(VarT, Bob, VarN, Bob)
  /\ stack[1].compiledCode = <<SP, "x", SP, "y", SP>>

\* C26: in every step the output of every call that goes on is the output
\* it had, followed by what the step appends: text once emitted is never
\* changed, by a later assignment or otherwise.
C26_OutputOnlyGrows ==
  [][\A i \in 1..Len(stack) :
       i <= Len(stack') =>
         /\ stack'[i].filePath = stack[i].filePath
         /\ StartsWith(stack'[i].compiledCode, stack[i].compiledCode)]_vars

\* C26's case: $n was used while it held Ann and assigned Bob afterwards, and
\* the output still holds Ann
C26_Witness ==
  /\ pc = "running"
  /\ files[PathA] = Compact(VarN, Ann) \o CompactUse(VarN) \o Spaced(VarN, Bob)
  /\ Len(stack) = 1
  /\ stack[1].currentComp = Len(stack[1].comps)
  /\ variablesDict = One(VarN, Bob)
  /\ stack[1].compiledCode = Ann

\* C27: a turn of the import loop that finds a file whose extension is not
\* ".kit" appends the content of that file as it is and goes on to the next
\* entry of the list: no call is started for it, the dictionary and the
\* forbidden paths stay as they are, also when the file is among them.
C27_RawImportVerbatim ==
  [][(pc = "running" /\ stmt = "next") =>
       LET f == Top(Cur)
           pathInfo == findImportFile(fullImportFilePath(f))
       IN  (pathInfo.found /\ ToLowerCase(Extname(pathInfo.path)) # KitExt) =>
             /\ stack' = [stack EXCEPT ![Len(stack)] =
                            [f EXCEPT !.compiledCode = @ \o files[pathInfo.path],
                                      !.importIdx = @ + 1]]
             /\ variablesDict' = variablesDict
             /\ pc' = pc]_vars

\* C27's case: t.html, compiled as entry file, has imported itself: its text
\* is in the output a second time with its import directive as it is written
C27_Witness ==
  /\ pc = "running"
  /\ inputPath = PathEntryT
  /\ PathT \in DOMAIN files
  /\ files[PathT] = Hi \o Spaced(KwImport, NameT)
  /\ Len(stack) = 1
  /\ stack[1].at = "import"
  /\ stack[1].importIdx = 1
  /\ stack[1].forbiddenImportPaths = <<>>
  /\ newForbiddenPaths(stack[1]) = <<PathT>>
  /\ stack[1].compiledCode = Hi \o Hi \o Spaced(KwImport, NameT)

\* C28: a step that processes <!--@import-partial NAME--> fails with the
\* undefined-variable message, which names the file and a line, when NAME is
\* not in the dictionary; when NAME is in it and names a readable post, the
\* step appends the content of that post as it is, and the dictionary, the
\* calls under way and their forbidden paths stay as they are.
C28_ImportPartial ==
  [][(pc = "running" /\ stmt = "partial" /\ predicateOf(Top(Cur)) # Null) =>
       LET f == Top(Cur)
           name == Trim(predicateOf(f))
           after == stack'[Len(stack)]
       IN  /\ Len(stack') = Len(stack)
           /\ variablesDict' = variablesDict
           /\ after.forbiddenImportPaths = f.forbiddenImportPaths
           /\ name \notin DOMAIN variablesDict =>
                /\ after.at = "ret"
                /\ after.result =
                     Failure(Message("The variable is undefined", f.lineCount,
                                     fileName(f), name))
                /\ f.lineCount >= 1
           /\ (/\ name \in DOMAIN variablesDict
               /\ IsRegularFile(PathJoin(PostsDir, variablesDict[name]))) =>
                /\ after.at = "walk"
                /\ after.compiledCode =
                     f.compiledCode \o prefixAt(f)
                       \o files[PathJoin(PostsDir, variablesDict[name])]
                       \o scanned(f).suffix]_vars

\* the number of line terminators of text s: LF, CR LF as one, and CR alone
LineTerminators(s) ==
  Cardinality({i \in 1..Len(s) :
                 \/ s[i] = LF
                 \/ s[i] = CR /\ (i = Len(s) \/ s[i + 1] # LF)})

\* the text of the current file before the "<!--" the walk is at
BeforeOpening(f) ==
  Concat(SubSeq(f.comps, 1, f.currentComp)) \o prefixAt(f)

\* C29: the line number of an error a call reports for a directive of its
\* file is 1 plus the number of line terminators of the file before the
\* directive's "<!--".
C29_LineOfError ==
  (pc = "running" /\ stack # <<>>) =>
    LET f == Top(Cur)
        msg == f.result.resultMessage
    IN  (f.at = "ret" /\ ~f.result.successful /\ msg.line > 0
         /\ msg.file = fileName(f)) =>
          msg.line = 1 + LineTerminators(BeforeOpening(f))

\* the tokens from the cursor to token last (from 0), as one text
TokensFrom(f, last) == Concat(SubSeq(f.comps, f.currentComp + 1, last + 1))

\* C30: in the walk of a file the cursor only moves forward and never past
\* the end: a text token or a token with an ordinary comment is appended to
\* the output and the cursor moves to the next token; a directive takes the
\* tokens from the cursor to the one with its end, which together are its
\* text, and the cursor moves to the token after them, so that none of them
\* is looked at again; while the files of an import directive are expanded
\* the cursor stays.  The walk therefore ends after at most as many of these
\* steps as the file has tokens.
C30_CursorAdvances ==
  [][(pc = "running" /\ stack # <<>> /\ Len(stack') = Len(stack)) =>
          LET f == Top(Cur)
              g == stack'[Len(stack)]
          IN  /\ g.filePath = f.filePath
              /\ f.at # "enter" => g.comps = f.comps
              /\ g.currentComp <= Len(g.comps)
              /\ g.currentComp >= f.currentComp
              /\ (f.at = "walk" /\ g.at = "walk") =>
                   g.currentComp > f.currentComp
              /\ stmt \in {"text", "comment"} =>
                   /\ g.currentComp = f.currentComp + 1
                   /\ g.compiledCode = f.compiledCode \o compAt(f)
              /\ (stmt \in {"assign", "use", "partial"} /\ g.at = "walk") =>
                   /\ g.currentComp = scanned(f).comp + 1
                   /\ TokensFrom(f, scanned(f).comp) =
                        prefixAt(f) \o scanned(f).string
              /\ stmt = "import" =>
                   /\ g.currentComp = f.currentComp
                   /\ g.specialCommentComp = scanned(f).comp
                   /\ TokensFrom(f, scanned(f).comp) =
                        prefixAt(f) \o scanned(f).string
              /\ stmt = "next" => g.currentComp = f.currentComp
              /\ stmt = "end" => g.currentComp = f.specialCommentComp + 1]_vars

\* C30's case: the assignment written over four tokens has been taken as one
\* directive, and the cursor is at the token after them
C30_Witness ==
  /\ pc = "running"
  /\ files[PathA] = Hi \o <<LF>> \o Spaced(VarN, Ann) \o <<LF>> \o <<"x", CR>>
                      \o CompactUse(VarT)
  /\ Len(stack) = 1
  /\ stack[1].at = "walk"
  /\ Len(stack[1].comps) = 8
  /\ stack[1].currentComp = 6
  /\ stack[1].compiledCode = Hi \o <<LF>>
  /\ variablesDict = One(VarN, Ann)

====
